---- MODULE Spec2Model ----
(***************************************************************************)
(* Model of gdpy3's matplotlib plotter (src/plotters/mplplotter.py):       *)
(* the axes interpreter MatplotlibPlotter._add_axes, the figure assembler  *)
(* MatplotlibPlotter._create_figure and the template generators            *)
(* _template_line_axstructs, _template_pcolor_axstructs and                *)
(* _template_z111p_axstructs.                                              *)
(*                                                                         *)
(* The rendering backend (matplotlib) is the environment: every backend    *)
(* call made inside a try block either returns or raises, chosen           *)
(* nondeterministically.  Panels (Axes objects) and artifacts are named by *)
(* the position in `data` of the instruction that created them; the panel  *)
(* made from the layout is PrimaryAx.                                      *)
(***************************************************************************)
EXTENDS Integers, Sequences, FiniteSets, TLC

\* ------------------------------------------------------------------------
\* Bounds of the model.
\* ------------------------------------------------------------------------
MaxData == 3        \* instructions in a structure handed to _add_axes
MaxKey == 1         \* instruction order keys range over 0..MaxKey
MaxColor == 1       \* values of the nextcolor kwarg range over 1..MaxColor
MaxStructs == 3     \* structures in the list handed to _create_figure
MaxFigData == 1     \* instructions in a structure of that list

\* ------------------------------------------------------------------------
\* Values.
\* ------------------------------------------------------------------------
\* A Python dict is a function; {} is the function with the empty domain.
EmptyDict == [k \in {} |-> 0]

\* dict.update / d[k] = v : the written key takes the new value.
DictSet(d, k, v) == [x \in DOMAIN d \cup {k} |-> IF x = k THEN v ELSE d[x]]

\* `with` over a sequence of style overrides: the innermost is the last.
Front(s) == SubSeq(s, 1, Len(s) - 1)

SeqsUpTo(S, n) == UNION {[1..m -> S] : m \in 0..n}

\* layout[0] as a typed value; `type` is what isinstance() looks at.
Position(t, v) == [type |-> t, v |-> v]

\* isinstance(layout[0], (int, list, matplotlib.gridspec.SubplotSpec))
ValidPositionTypes == {"int", "list", "SubplotSpec"}

IsValidPositionNoList(p) == p.type \in ValidPositionTypes \ {"list"}
IsValidPosition(p) == p.type \in ValidPositionTypes

TwinFuncs == {"twinx", "twiny"}

PrimaryAx == 0
NoAx == -1

Keys == 0..MaxKey

\* fkwargs of a twin instruction: with or without 'nextcolor'.
TwinKwargs == {EmptyDict} \cup {[nextcolor |-> n] : n \in 1..MaxColor}

\* One instruction [index, axfunc, fargs, fkwargs] of AxesStructure['data'].
Instr(index, axfunc, fargs, fkwargs) ==
    [index |-> index, axfunc |-> axfunc, fargs |-> fargs, fkwargs |-> fkwargs]

Instructions(keys) ==
    {Instr(k, f, <<>>, kw) : k \in keys, f \in {"twinx"}, kw \in TwinKwargs}
    \cup {Instr(k, "twiny", <<>>, EmptyDict) : k \in keys}
    \cup {Instr(k, "revise", <<"revise_func">>, EmptyDict) : k \in keys}
    \cup {Instr(k, "plot", <<"x", "y">>, EmptyDict) : k \in keys}

AxesStructure(data, layout, axstyle) ==
    [data |-> data, layout |-> layout, axstyle |-> axstyle]

\* Structures handed directly to _add_axes.
AxesStructures ==
    {AxesStructure(d, <<p, EmptyDict>>, "axstyle") :
        d \in SeqsUpTo(Instructions(Keys), MaxData),
        p \in {Position("int", 111), Position("str", 0)}}

\* Structures of the list handed to _create_figure.
FigStructures ==
    {AxesStructure(d, <<p, EmptyDict>>, "axstyle") :
        d \in SeqsUpTo({Instr(1, "plot", <<"x", "y">>, EmptyDict),
                        Instr(1, "twinx", <<>>, EmptyDict),
                        Instr(1, "revise", <<"revise_func">>, EmptyDict)},
                       MaxFigData),
        p \in {Position("int", 111), Position("list", 1),
               Position("tuple", 1)}}

\* ------------------------------------------------------------------------
\* State.
\* ------------------------------------------------------------------------
VARIABLES
    pc,           \* control point
    caller,       \* who called _add_axes: "create_figure" or "direct"
    nstructs,     \* len(axesstructures) in _create_figure
    i,            \* _create_figure: enumerate index of the structure
    calls,        \* one record per add_axes call made so far
    fig,          \* panels of the figure: <<structure, panel>> in creation order
    result,       \* value returned by _create_figure ("fig") or "none"
    styles,       \* active matplotlib.style.context overrides, innermost last
    axstructure,  \* _add_axes: the structure being interpreted
    pos,          \* _add_axes: position in `data` of the next instruction
    ax,           \* _add_axes: local `ax`, the current panel
    axesdict,     \* _add_axes: order key -> panel
    artistdict,   \* _add_axes: order key -> artifact
    axes,         \* backend: panel -> [parent, how, color]
    artists,      \* backend: artifact -> [ax, func]
    outcome,      \* what each executed instruction of this structure did
    log,          \* records written to the logger
    call,         \* template generators: [func, args] being applied
    ret           \* template generators: returned value

interp == <<pc, caller, nstructs, i, calls, fig, result, styles, axstructure,
            pos, ax, axesdict, artistdict, axes, artists, outcome, log>>
templ == <<call, ret>>
vars == <<interp, templ>>

data == axstructure.data
layout == axstructure.layout

LogRec(level, msg, arg) == [level |-> level, msg |-> msg, arg |-> arg]

\* ------------------------------------------------------------------------
\* Helpers of the plotter class.
\* ------------------------------------------------------------------------
\* _filter_style: the style name becomes the path of its file in the
\* plotter's style library.
STYLE_LIBPATH == "mpl-stylelib"
_filter_style(sty) == <<STYLE_LIBPATH, sty, ".mplstyle">>

\* BasePlotter.filter_style: resolves a style through _filter_style.
filter_style(sty) == _filter_style(sty)

\* BasePlotter.add_axes: hands the structure's data, layout and axstyle
\* to _add_axes.
add_axes(s) == AxesStructure(s.data, s.layout, s.axstyle)

\* matplotlib.style.context(...).__exit__: the innermost override is
\* released when its `with` block is left, by whatever path.
StyleExitLeak(stack) == stack
StyleExit(stack) == Front(stack)

\* Receiver of getattr(ax, axfunc)() for a twin instruction: local `ax`.
TwinReceiver(cur, adict) == cur

\* Receiver of getattr(ax, axfunc)(*fargs, **fkwargs) for a drawing
\* instruction: local `ax`.
DrawReceiverPrimary(cur, adict) == adict[0]
DrawReceiver(cur, adict) == cur

\* axesdict[index] = ax / artistdict[index] = art
RegisterKeepFirst(d, k, v) == IF k \in DOMAIN d THEN d ELSE DictSet(d, k, v)
Register(d, k, v) == DictSet(d, k, v)

\* The except clauses of the instruction loop swallow the exception: the
\* for loop goes on with the next instruction.
NextInstrAbort(p, n, failed) == IF failed THEN n + 1 ELSE p + 1
NextInstr(p, n, failed) == p + 1

\* _add_axes returns normally whatever happened in it: the for loop of
\* _create_figure goes on with the next structure.
NextStructureAbort(idx, n, res) == IF res # "built" THEN n + 1 ELSE idx + 1
NextStructure(idx, n, res) == idx + 1

DuplicateWarn(d, k) ==
    IF k \in DOMAIN d THEN <<LogRec("warn", "Duplicate index", k)>> ELSE <<>>

\* ------------------------------------------------------------------------
\* _add_axes
\* ------------------------------------------------------------------------
\* `return` of _add_axes: the locals are dropped and control goes back to
\* the caller.
Return(res) ==
    /\ pc' = IF caller = "create_figure" THEN "pick" ELSE "done"
    /\ i' = IF caller = "create_figure"
            THEN NextStructure(i, nstructs, res) ELSE i
    /\ calls' = [calls EXCEPT ![Len(calls)] =
                    [@ EXCEPT !.res = res, !.nexec = Len(outcome)]]
    /\ pos' = 0
    /\ ax' = NoAx
    /\ axesdict' = EmptyDict
    /\ artistdict' = EmptyDict
    /\ axes' = EmptyDict
    /\ artists' = EmptyDict

\* recheck layout; enter the axstyle context
RecheckLayout ==
    /\ pc = "add_axes"
    /\ IF ~IsValidPosition(layout[1])
       THEN /\ log' = Append(log, LogRec("error",
                        "layout[0] must be a int, list, or SubplotSpec",
                        layout[1].v))
            /\ Return("invalid layout")
            /\ UNCHANGED <<styles>>
       ELSE /\ styles' = Append(styles, filter_style(axstructure.axstyle))
            /\ pc' = "use_layout"
            /\ UNCHANGED <<i, calls, pos, ax, axesdict, artistdict, axes,
                           artists, log>>
    /\ UNCHANGED <<caller, nstructs, fig, result, axstructure, outcome, templ>>

\* use layout: fig.add_axes for a list, fig.add_subplot otherwise
UseLayout ==
    /\ pc = "use_layout"
    /\ \E ok \in BOOLEAN :
        IF ok
        THEN /\ ax' = PrimaryAx
             /\ axes' = (PrimaryAx :>
                          [parent |-> NoAx,
                           how |-> IF layout[1].type = "list"
                                   THEN "add_axes" ELSE "add_subplot",
                           color |-> 0])
             /\ fig' = Append(fig, <<i, PrimaryAx>>)
             /\ axesdict' = (0 :> PrimaryAx)
             /\ artistdict' = EmptyDict
             /\ artists' = EmptyDict
             /\ pos' = 1
             /\ pc' = "use_data"
             /\ UNCHANGED <<i, calls, styles, log>>
        ELSE /\ log' = Append(log, LogRec("error", "Failed to add axes",
                                          layout[1].v))
             /\ styles' = StyleExit(styles)
             /\ Return("add failed")
             /\ UNCHANGED <<fig>>
    /\ UNCHANGED <<caller, nstructs, result, axstructure, outcome, templ>>

\* axfunc in ('twinx', 'twiny')
Twin ==
    /\ pc = "use_data"
    /\ pos <= Len(data)
    /\ data[pos].axfunc \in TwinFuncs
    /\ LET ins == data[pos]
           hascolor == "nextcolor" \in DOMAIN ins.fkwargs
           n == IF hascolor THEN ins.fkwargs.nextcolor ELSE 0
           new == pos
       IN \E r \in {"ok", "raised"}
                   \cup (IF n > 0 THEN {"raised in nextcolor"} ELSE {}) :
           /\ outcome' = Append(outcome, r)
           /\ pos' = NextInstr(pos, Len(data), r # "ok")
           /\ IF r = "raised"
              THEN /\ log' = Append(log, LogRec("error",
                                      "Failed to create axes", ins.index))
                   /\ UNCHANGED <<ax, axesdict, axes, fig>>
              ELSE /\ ax' = new
                   /\ fig' = Append(fig, <<i, new>>)
                   /\ axesdict' = Register(axesdict, ins.index, new)
                   /\ \E c \in (IF r = "ok" THEN {n} ELSE 0..(n - 1)) :
                        axes' = DictSet(axes, new,
                                  [parent |-> TwinReceiver(ax, axesdict),
                                   how |-> ins.axfunc,
                                   color |-> c])
                   /\ log' = log \o DuplicateWarn(axesdict, ins.index)
                               \o (IF r = "ok" THEN <<>>
                                   ELSE <<LogRec("error",
                                         "Failed to create axes", ins.index)>>)
    /\ UNCHANGED <<pc, caller, nstructs, i, calls, result, styles,
                   axstructure, artistdict, artists, templ>>

\* lambda fig, ax, art: fig.colorbar(art[1])
ColorbarCallback == <<"fig.colorbar(art[1])">>

\* The keys of artistdict a callback subscripts; a key that is not
\* registered raises KeyError inside the callback.
CallbackReads(fargs) == IF fargs = ColorbarCallback THEN {1} ELSE {}

\* The callback raises when a registry read fails; otherwise the backend
\* call it makes returns or raises.
CallbackOutcomes(fargs, art) ==
    IF CallbackReads(fargs) \subseteq DOMAIN art THEN {"ok", "raised"}
    ELSE {"raised"}

\* axfunc == 'revise': fargs(fig, axesdict, artistdict, **fkwargs)
\* The callback reads the registries it is handed and does not rebind
\* their keys.
Revise ==
    /\ pc = "use_data"
    /\ pos <= Len(data)
    /\ data[pos].axfunc = "revise"
    /\ \E r \in CallbackOutcomes(data[pos].fargs, artistdict) :
        /\ outcome' = Append(outcome, r)
        /\ pos' = NextInstr(pos, Len(data), r # "ok")
        /\ log' = IF r = "ok" THEN log
                  ELSE Append(log, LogRec("error", "Failed to revise axes",
                                          layout[1].v))
    /\ UNCHANGED <<pc, caller, nstructs, i, calls, fig, result, styles,
                   axstructure, ax, axesdict, artistdict, axes, artists,
                   templ>>

\* any other axfunc: art = getattr(ax, axfunc)(*fargs, **fkwargs)
Artist ==
    /\ pc = "use_data"
    /\ pos <= Len(data)
    /\ data[pos].axfunc \notin TwinFuncs \cup {"revise"}
    /\ LET ins == data[pos]
           art == pos
       IN \E r \in {"ok", "raised"} :
           /\ outcome' = Append(outcome, r)
           /\ pos' = NextInstr(pos, Len(data), r # "ok")
           /\ IF r = "ok"
              THEN /\ artists' = DictSet(artists, art,
                                   [ax |-> DrawReceiver(ax, axesdict),
                                    func |-> ins.axfunc])
                   /\ artistdict' = Register(artistdict, ins.index, art)
                   /\ log' = log \o DuplicateWarn(artistdict, ins.index)
              ELSE /\ log' = Append(log, LogRec("error",
                                      "Failed to add artist", ins.index))
                   /\ UNCHANGED <<artists, artistdict>>
    /\ UNCHANGED <<pc, caller, nstructs, i, calls, fig, result, styles,
                   axstructure, ax, axesdict, axes, templ>>

\* end of the for loop: the `with` block is left and _add_axes returns
EndAxes ==
    /\ pc = "use_data"
    /\ pos > Len(data)
    /\ styles' = StyleExit(styles)
    /\ Return("built")
    /\ UNCHANGED <<caller, nstructs, fig, result, axstructure, outcome, log,
                   templ>>

AddAxesStep == RecheckLayout \/ UseLayout \/ Twin \/ Revise \/ Artist \/ EndAxes

\* ------------------------------------------------------------------------
\* _create_figure
\* ------------------------------------------------------------------------
CallRec(idx, s) ==
    [i |-> idx, res |-> "running", nexec |-> 0, ndata |-> Len(s.data),
     valid |-> IsValidPosition(s.layout[1])]

\* enter the figstyle context; fig = matplotlib.pyplot.figure(num=num)
CreateFigure ==
    /\ pc = "create_figure"
    /\ styles' = Append(styles, filter_style("figstyle"))
    /\ fig' = <<>>
    /\ i' = 1
    /\ pc' = "pick"
    /\ UNCHANGED <<caller, nstructs, calls, result, axstructure, pos, ax,
                   axesdict, artistdict, axes, artists, outcome, log, templ>>

\* for i, axstructure in enumerate(axesstructures, 1):
\*     self.add_axes(fig, axstructure)
\* The elements of the list are drawn as the loop reaches them.
PickAxesStructure ==
    /\ pc = "pick"
    /\ i <= nstructs
    /\ \E s \in FigStructures :
        /\ axstructure' = add_axes(s)
        /\ calls' = Append(calls, CallRec(i, s))
    /\ outcome' = <<>>
    /\ pc' = "add_axes"
    /\ UNCHANGED <<caller, nstructs, i, fig, result, styles, pos, ax,
                   axesdict, artistdict, axes, artists, log, templ>>

\* the loop is exhausted: leave the figstyle context, return fig
ReturnFigure ==
    /\ pc = "pick"
    /\ i > nstructs
    /\ styles' = StyleExit(styles)
    /\ result' = "fig"
    /\ pc' = "done"
    /\ UNCHANGED <<caller, nstructs, i, calls, fig, axstructure, pos, ax,
                   axesdict, artistdict, axes, artists, outcome, log, templ>>

\* ------------------------------------------------------------------------
\* Specifications of the interpreter and of the assembler.
\* ------------------------------------------------------------------------
IdleTemplates ==
    /\ call = [func |-> "none"]
    /\ ret = [done |-> FALSE, raised |-> FALSE]

InitLocals ==
    /\ fig = <<>>
    /\ result = "none"
    /\ styles = <<>>
    /\ pos = 0
    /\ ax = NoAx
    /\ axesdict = EmptyDict
    /\ artistdict = EmptyDict
    /\ axes = EmptyDict
    /\ artists = EmptyDict
    /\ outcome = <<>>
    /\ log = <<>>

\* one direct call _add_axes(fig, data, layout, axstyle)
InitAxes ==
    /\ pc = "add_axes"
    /\ caller = "direct"
    /\ nstructs = 1
    /\ i = 1
    /\ axstructure \in AxesStructures
    /\ calls = <<CallRec(1, axstructure)>>
    /\ InitLocals
    /\ IdleTemplates

NextAxes == AddAxesStep

SpecAxes == InitAxes /\ [][NextAxes]_vars

\* one call _create_figure(num, axesstructures, figstyle)
InitFigure ==
    /\ pc = "create_figure"
    /\ caller = "create_figure"
    /\ nstructs \in 0..MaxStructs
    /\ i = 0
    /\ axstructure = AxesStructure(<<>>, <<Position("int", 111), EmptyDict>>,
                                   "axstyle")
    /\ calls = <<>>
    /\ InitLocals
    /\ IdleTemplates

NextFigure == CreateFigure \/ PickAxesStructure \/ AddAxesStep \/ ReturnFigure

SpecFigure == InitFigure /\ [][NextFigure]_vars

\* ------------------------------------------------------------------------
\* Properties of _add_axes (SpecAxes).
\* ------------------------------------------------------------------------
Max(S) == CHOOSE m \in S : \A n \in S : n <= m

Executed == 1..Len(outcome)
IsTwin(k) == data[k].axfunc \in TwinFuncs
IsRevise(k) == data[k].axfunc = "revise"
IsDraw(k) == ~IsTwin(k) /\ ~IsRevise(k)

\* the twin instruction at position k ran without raising
TwinSucceeded(k) == IsTwin(k) /\ outcome[k] = "ok"
\* the twin call of the instruction at position k returned a panel
TwinCreated(k) == IsTwin(k) /\ outcome[k] # "raised"

\* The panel made by the last instruction before position k that
\* satisfies P, the primary panel if there is none.
LastPanelBefore(P(_), k) == Max({PrimaryAx} \cup {j \in 1..(k - 1) : P(j)})

LastLog == log[Len(log)]

\* C1: every twin instruction creates its panel off the primary panel,
\* which is the panel registered at key 0, never off the current twin.
C1_TwinParentIsPrimary ==
    [][\A p \in DOMAIN axes' \ DOMAIN axes :
          p # PrimaryAx =>
            (axes'[p].parent = PrimaryAx \/ axes'[p].parent = axesdict[0])
      ]_vars

\* C2 (as stated): every artifact belongs to the panel created by the most
\* recent preceding twin instruction that succeeded, or to the primary
\* panel if there is none.
C2_DrawOnLastSuccessfulTwin ==
    \A a \in DOMAIN artists :
        artists[a].ax = LastPanelBefore(TwinSucceeded, a)

\* C2 (amended): every artifact belongs to the panel created by the most
\* recent preceding twin instruction whose twin call returned a panel
\* (whether or not its nextcolor advance then raised), or to the primary
\* panel if there is none.
C2_DrawOnLastCreatedTwin ==
    \A a \in DOMAIN artists :
        artists[a].ax = LastPanelBefore(TwinCreated, a)

\* a twin whose nextcolor advance raised, then a draw that landed on it
C2_Witness ==
    \E a \in DOMAIN artists :
        /\ a > 1
        /\ IsTwin(a - 1)
        /\ outcome[a - 1] = "raised in nextcolor"
        /\ artists[a].ax = a - 1

\* C3: an instruction that fails is caught and logged, and the loop goes
\* on with the next instruction of the list; a draw that succeeds
\* registers its artifact; the loop is left only after the last
\* instruction.
C3_FailureIsLocal ==
    [][/\ (pc = "use_data" /\ pos <= Len(data)) =>
            /\ pc' = "use_data"
            /\ pos' = pos + 1
            /\ Len(outcome') = pos
            /\ outcome'[pos] # "ok" =>
                 /\ Len(log') > Len(log)
                 /\ log'[Len(log')].level = "error"
            /\ (IsDraw(pos) /\ outcome'[pos] = "ok") =>
                 /\ data[pos].index \in DOMAIN artistdict'
                 /\ artistdict'[data[pos].index] = pos
                 /\ pos \in DOMAIN artists'
       /\ (pc = "use_data" /\ pc' # "use_data") =>
            /\ pos = Len(data) + 1
            /\ Len(outcome) = Len(data)
            /\ calls'[Len(calls')].res = "built"
      ]_vars

\* a revise callback raised and the next instruction drew and registered
C3_Witness ==
    \E k \in Executed :
        /\ k > 1
        /\ IsRevise(k - 1)
        /\ outcome[k - 1] = "raised"
        /\ IsDraw(k)
        /\ outcome[k] = "ok"
        /\ artistdict[data[k].index] = k

\* C6: key 0 of the axes registry denotes the primary panel throughout the
\* interpretation of a structure.
C6_KeyZeroIsPrimary ==
    pc = "use_data" => (0 \in DOMAIN axesdict /\ axesdict[0] = PrimaryAx)

\* C7: when a successful draw (twin) instruction carries the order key of
\* an earlier successful draw (twin) instruction, the artifact (axes)
\* registry maps the key to the later one's object, a warning is logged
\* and the loop goes on.
EarlierWrite(P(_), k) ==
    \E j \in 1..(k - 1) :
        P(j) /\ outcome[j] = "ok" /\ data[j].index = data[k].index

C7_LastWriteWins ==
    [][(pc = "use_data" /\ pos <= Len(data) /\ outcome'[pos] = "ok") =>
         /\ (IsDraw(pos) /\ EarlierWrite(IsDraw, pos)) =>
              /\ artistdict'[data[pos].index] = pos
              /\ \A k \in DOMAIN artistdict \ {data[pos].index} :
                    artistdict'[k] = artistdict[k]
              /\ log' = Append(log, LogRec("warn", "Duplicate index",
                                           data[pos].index))
              /\ pc' = "use_data" /\ pos' = pos + 1
         /\ (IsTwin(pos) /\ EarlierWrite(IsTwin, pos)) =>
              /\ axesdict'[data[pos].index] = pos
              /\ \A k \in DOMAIN axesdict \ {data[pos].index} :
                    axesdict'[k] = axesdict[k]
              /\ log' = Append(log, LogRec("warn", "Duplicate index",
                                           data[pos].index))
              /\ pc' = "use_data" /\ pos' = pos + 1
      ]_vars

\* two successful draws with one key, the later one registered, the
\* warning logged, and the instruction after them executed
C7_Witness ==
    \E j, k \in Executed :
        /\ j < k /\ k < Len(outcome)
        /\ IsDraw(j) /\ IsDraw(k)
        /\ outcome[j] = "ok" /\ outcome[k] = "ok"
        /\ data[j].index = data[k].index
        /\ artistdict[data[k].index] = k
        /\ \E n \in 1..Len(log) : log[n].level = "warn"

\* ------------------------------------------------------------------------
\* Properties of _create_figure (SpecFigure).
\* ------------------------------------------------------------------------
Returned(k) == calls[k].res # "running"
PanelsOf(k) == {n \in 1..Len(fig) : fig[n][1] = k}

\* C4: the interpreter is called once per structure, in list order; a
\* structure with an invalid layout position or a rejected primary panel
\* adds no panel and executes no instruction; every other structure is
\* built in full; the figure is returned.
C4_NeverStopsEarly ==
    /\ Len(calls) <= nstructs
    /\ \A k \in 1..Len(calls) :
        /\ calls[k].i = k
        /\ Returned(k) =>
            /\ calls[k].res = "invalid layout" <=> ~calls[k].valid
            /\ calls[k].res \in {"invalid layout", "add failed"} =>
                 (calls[k].nexec = 0 /\ PanelsOf(k) = {})
            /\ calls[k].res \notin {"invalid layout", "add failed"} =>
                 /\ calls[k].res = "built"
                 /\ calls[k].nexec = calls[k].ndata
                 /\ \E n \in PanelsOf(k) : fig[n][2] = PrimaryAx
    /\ pc = "done" =>
        /\ Len(calls) = nstructs
        /\ \A k \in 1..nstructs : Returned(k)
        /\ result = "fig"

\* a skipped structure with a built structure before and after it
C4_Witness ==
    /\ pc = "done"
    /\ \E k \in 2..(Len(calls) - 1) :
        /\ calls[k].res \in {"invalid layout", "add failed"}
        /\ calls[k - 1].res = "built"
        /\ calls[k + 1].res = "built"
        /\ calls[k + 1].ndata > 0

\* C5: the figure style is active during the whole build, the structure's
\* axstyle is nested in it while that structure is interpreted, and every
\* override entered has been released when the build is over.
C5_StylesScoped ==
    /\ pc \in {"create_figure", "done"} => styles = <<>>
    /\ pc \in {"pick", "add_axes"} => styles = <<filter_style("figstyle")>>
    /\ pc \in {"use_layout", "use_data"} =>
         styles = <<filter_style("figstyle"),
                    filter_style(axstructure.axstyle)>>

\* the build is over after an invalid layout, a rejected panel and a
\* failed instruction
C5_Witness ==
    /\ pc = "done"
    /\ \E k \in 1..Len(calls) : calls[k].res = "invalid layout"
    /\ \E k \in 1..Len(calls) : calls[k].res = "add failed"
    /\ \E n \in 1..Len(log) : log[n].msg = "Failed to add artist"
    /\ styles = <<>>

\* ------------------------------------------------------------------------
\* Template generators.
\*
\* Python values: a string is truthy unless empty; a list is a sequence
\* and is truthy unless empty (an absent xlim/ylim is the empty sequence);
\* None is the value None below; arrays are non-empty sequences of
\* integers.
\* ------------------------------------------------------------------------
MaxLines == 3       \* lines handed to the line template
MaxGrid == 2        \* elements of the value grid Z
MaxZ == 5           \* grid values range over -MaxZ..MaxZ
MaxPairs == 3       \* pairs handed to the composite-grid template

None == [type |-> "NoneType", v |-> 0]
PyInt(n) == [type |-> "int", v |-> n]

\* d.update(e)
DictUpdate(d, e) ==
    [k \in DOMAIN d \cup DOMAIN e |-> IF k \in DOMAIN e THEN e[k] ELSE d[k]]

Pending == [done |-> FALSE, raised |-> FALSE]
Raise(exc) == [done |-> TRUE, raised |-> TRUE, exc |-> exc]

\* ---- _template_line_axstructs ------------------------------------------
Unbound == -1

\* for i, ln in enumerate(LINE, 1): ...
\* st = [data, addlegend, i]; i stays unbound when LINE is empty.
RECURSIVE LineLoop(_, _, _)
LineLoop(LINE, k, st) ==
    IF k > Len(LINE) THEN st
    ELSE LET ln == LINE[k]
         IN LineLoop(LINE, k + 1,
              IF Len(ln) = 3
              THEN [data |-> Append(st.data,
                               Instr(k, "plot", <<ln[1], ln[2]>>,
                                     [label |-> ln[3]])),
                    addlegend |-> TRUE,
                    i |-> k]
              ELSE IF Len(ln) = 2
              THEN [data |-> Append(st.data,
                               Instr(k, "plot", <<ln[1], ln[2]>>, EmptyDict)),
                    addlegend |-> st.addlegend,
                    i |-> k]
              ELSE [st EXCEPT !.i = k])

\* if addlegend: i = i + 1; data.append([i, 'legend', (), legend_kwargs])
LineLegend(st, legend_kwargs) ==
    IF st.addlegend
    THEN [st EXCEPT !.i = st.i + 1,
                    !.data = Append(st.data,
                               Instr(st.i + 1, "legend", <<>>, legend_kwargs))]
    ELSE st

\* layoutkw: title, xlabel, ylabel (when not rotated), xlim, ylim
LineLayoutkw(a) ==
    LET k1 == IF a.title # "" THEN [title |-> a.title] ELSE EmptyDict
        k2 == IF a.xlabel # "" THEN DictSet(k1, "xlabel", a.xlabel) ELSE k1
        k3 == IF a.ylabel # "" /\ a.ylabel_rotation = None
              THEN DictSet(k2, "ylabel", a.ylabel) ELSE k2
        k4 == IF a.xlim # <<>> THEN DictSet(k3, "xlim", a.xlim) ELSE k3
        k5 == IF a.ylim # <<>> THEN DictSet(k4, "ylim", a.ylim) ELSE k4
    IN k5

_template_line_axstructs(a) ==
    LET st0 == [data |-> <<>>, addlegend |-> FALSE, i |-> Unbound]
        st1 == LineLegend(LineLoop(a.LINE, 1, st0), a.legend_kwargs)
        rotated == a.ylabel # "" /\ a.ylabel_rotation # None
    IN IF rotated /\ st1.i = Unbound
       THEN \* data.append([i + 1, ...]) reads the unbound local i
            Raise("UnboundLocalError")
       ELSE LET dat == IF rotated
                       THEN Append(st1.data,
                              Instr(st1.i + 1, "set_ylabel", <<a.ylabel>>,
                                    [rotation |-> a.ylabel_rotation]))
                       ELSE st1.data
            IN [done |-> TRUE, raised |-> FALSE,
                AxStructs |-> <<[data |-> dat,
                                 layout |-> <<Position("int", 111),
                                              LineLayoutkw(a)>>]>>,
                styles |-> <<>>]

\* The lines are (x, y) or (x, y, label), as the template's callers
\* supply them.
Lines == {<<"x", "y">>, <<"x", "y", "A">>}

LineArgs ==
    [LINE : SeqsUpTo(Lines, MaxLines),
     title : {"", "T"},
     xlabel : {"", "X"},
     ylabel : {"", "Y"},
     xlim : {<<>>, <<0, 1>>},
     ylim : {<<>>},
     ylabel_rotation : {None, PyInt(0)},
     legend_kwargs : {[loc |-> "best"]}]

\* ---- specification of the template generators ---------------------------
IdleInterp ==
    /\ pc = "template"
    /\ caller = "direct"
    /\ nstructs = 0
    /\ i = 0
    /\ axstructure = AxesStructure(<<>>, <<Position("int", 111), EmptyDict>>,
                                   "axstyle")
    /\ calls = <<>>
    /\ InitLocals

Apply(func, value) ==
    /\ pc = "template"
    /\ call.func = func
    /\ ret' = value
    /\ pc' = "done"
    /\ UNCHANGED <<call, caller, nstructs, i, calls, fig, result, styles,
                   axstructure, pos, ax, axesdict, artistdict, axes, artists,
                   outcome, log>>

InitLine ==
    /\ \E a \in LineArgs : call = [func |-> "line", args |-> a]
    /\ ret = Pending
    /\ IdleInterp

ApplyLine == Apply("line", _template_line_axstructs(call.args))

NextLine == ApplyLine

SpecLine == InitLine /\ [][NextLine]_vars

\* number of labelled lines
Labelled(LINE) == {k \in 1..Len(LINE) : Len(LINE[k]) = 3}
VerbAt(dat, f) == {k \in 1..Len(dat) : dat[k].axfunc = f}

LineOutputAsClaimed ==
    LET LINE == call.args.LINE
        N == Len(LINE)
    IN /\ Len(ret.AxStructs) = 1
       /\ ret.AxStructs[1].layout[1] = Position("int", 111)
       /\ LET dat == ret.AxStructs[1].data
          IN /\ Len(dat) >= N
             /\ \A k \in 1..N :
                  /\ dat[k].index = k
                  /\ dat[k].axfunc = "plot"
                  /\ dat[k].fargs = <<LINE[k][1], LINE[k][2]>>
                  /\ IF Len(LINE[k]) = 3
                     THEN dat[k].fkwargs = [label |-> LINE[k][3]]
                     ELSE DOMAIN dat[k].fkwargs = {}
             /\ VerbAt(dat, "plot") = 1..N
             /\ IF Labelled(LINE) # {}
                THEN VerbAt(dat, "legend") = {N + 1}
                ELSE VerbAt(dat, "legend") = {}

\* C8: the line template returns one structure at position 111 holding
\* one plot instruction per line, in input order with orders 1..N, then
\* one legend instruction exactly when some line carried a label.
C8_LineTemplate ==
    (call.func = "line" /\ ret.done) => (~ret.raised /\ LineOutputAsClaimed)

\* ---- _template_pcolor_axstructs ----------------------------------------
Abs(n) == IF n < 0 THEN -n ELSE n
Max2(a, b) == IF a >= b THEN a ELSE b
Min2(a, b) == IF a <= b THEN a ELSE b

\* numpy: A.max(), A.min() of a non-empty array
RECURSIVE ArrayMax(_)
ArrayMax(A) == IF Len(A) = 1 THEN A[1] ELSE Max2(A[1], ArrayMax(Tail(A)))
RECURSIVE ArrayMin(_)
ArrayMin(A) == IF Len(A) = 1 THEN A[1] ELSE Min2(A[1], ArrayMin(Tail(A)))

\* Zmax = max(abs(Z.max()), abs(Z.min()))
ZmaxNoAbs(Z) == ArrayMax(Z)
Zmax(Z) == Max2(Abs(ArrayMax(Z)), Abs(ArrayMin(Z)))

\* plotkw.update(vmin=-Zmax, vmax=Zmax); plotkw.update(plot_method_kwargs)
Plotkw(plotkw, zmax, plot_method_kwargs) ==
    DictUpdate(DictUpdate(plotkw, [vmin |-> -zmax, vmax |-> zmax]),
               plot_method_kwargs)

\* for x in plot_surface_shadow: ...
\* st = [order, data, layoutkw]
RECURSIVE ShadowLoop(_, _, _, _)
ShadowLoop(a, zmax, k, st) ==
    IF k > Len(a.plot_surface_shadow) THEN st
    ELSE LET x == a.plot_surface_shadow[k]
             _offsetd == [x |-> ArrayMin(a.X), y |-> ArrayMax(a.Y),
                          z |-> -zmax]
             _limd == [x |-> <<ArrayMin(a.X), ArrayMax(a.X)>>,
                       y |-> <<ArrayMin(a.Y), ArrayMax(a.Y)>>,
                       z |-> <<-zmax, zmax>>]
         IN ShadowLoop(a, zmax, k + 1,
              [order |-> st.order + 1,
               layoutkw |-> DictSet(st.layoutkw, x \o "lim", _limd[x]),
               data |-> Append(st.data,
                          Instr(st.order + 1, "contourf",
                                <<a.X, a.Y, a.Z, 100>>,
                                [zdir |-> x, offset |-> _offsetd[x]]))])

\* lst.insert(0, x)
InsertLast(lst, x) == Append(lst, x)
InsertFirst(lst, x) == <<x>> \o lst

_template_pcolor_axstructs(a) ==
    LET zmax == Zmax(a.Z)
        surface == a.plot_method = "plot_surface"
        st0 == [order |-> 1, data |-> <<>>,
                layoutkw |-> IF surface
                             THEN [projection |-> "3d",
                                   zlim |-> <<-zmax, zmax>>]
                             ELSE EmptyDict]
        plotkw0 == IF surface
                   THEN [rstride |-> 1, cstride |-> 1, linewidth |-> 1,
                         antialiased |-> TRUE, cmap |-> "jet"]
                   ELSE EmptyDict
        st1 == IF surface THEN ShadowLoop(a, zmax, 1, st0) ELSE st0
        st2 == IF a.colorbar
               THEN [st1 EXCEPT !.order = st1.order + 1,
                        !.data = Append(st1.data,
                                   Instr(st1.order + 1, "revise",
                                         ColorbarCallback, EmptyDict))]
               ELSE st1
        st3 == IF a.grid_alpha # None
               THEN [st2 EXCEPT !.order = st2.order + 1,
                        !.data = Append(st2.data,
                                   Instr(st2.order + 1, "grid", <<>>,
                                         [alpha |-> a.grid_alpha]))]
               ELSE st2
        plotarg == a.plot_method_args
                   \o (IF a.plot_method_args = <<>>
                          /\ a.plot_method = "contourf"
                       THEN <<100>> ELSE <<>>)
        plotkw == Plotkw(plotkw0, zmax, a.plot_method_kwargs)
        \* data.insert(0, [1, plot_method, [X, Y, Z] + plotarg, plotkw])
        dat == InsertFirst(st3.data,
                           Instr(1, a.plot_method,
                                 <<a.X, a.Y, a.Z>> \o plotarg, plotkw))
        k1 == IF a.title # "" THEN DictSet(st3.layoutkw, "title", a.title)
              ELSE st3.layoutkw
        k2 == IF a.xlabel # "" THEN DictSet(k1, "xlabel", a.xlabel) ELSE k1
        k3 == IF a.ylabel # "" THEN DictSet(k2, "ylabel", a.ylabel) ELSE k2
    IN [done |-> TRUE, raised |-> FALSE,
        AxStructs |-> <<[data |-> dat,
                         layout |-> <<Position("int", 111), k3>>]>>,
        styles |-> <<>>]

ZValues == (-MaxZ)..MaxZ
Grids == UNION {[1..m -> ZValues] : m \in 1..MaxGrid}

\* The caller's kwargs: any of vmin, vmax, with values that are not the
\* defaults of any grid.
CallerKwargs ==
    {EmptyDict, [vmin |-> -(MaxZ + 2)], [vmax |-> MaxZ + 3],
     [vmin |-> -(MaxZ + 2), vmax |-> MaxZ + 3]}

PcolorArgs ==
    [X : {<<0, 1>>}, Y : {<<0, 2>>}, Z : Grids,
     plot_method : {"pcolor", "contourf", "plot_surface"},
     plot_method_args : {<<>>, <<50>>},
     plot_method_kwargs : CallerKwargs,
     title : {"T"}, xlabel : {""}, ylabel : {""},
     colorbar : BOOLEAN,
     grid_alpha : {None, PyInt(1)},
     plot_surface_shadow : {<<>>, <<"x">>, <<"z", "y">>}]

InitPcolor ==
    /\ \E a \in PcolorArgs : call = [func |-> "pcolor", args |-> a]
    /\ ret = Pending
    /\ IdleInterp

ApplyPcolor == Apply("pcolor", _template_pcolor_axstructs(call.args))

NextPcolor == ApplyPcolor

SpecPcolor == InitPcolor /\ [][NextPcolor]_vars

SetMax(S) == CHOOSE m \in S : \A n \in S : n <= m
SetMin(S) == CHOOSE m \in S : \A n \in S : m <= n
Elements(A) == {A[k] : k \in 1..Len(A)}

\* C10: the primary plot instruction carries vmax = max(|Z.max()|,
\* |Z.min()|) and vmin = -vmax unless the caller's kwargs hold vmin or
\* vmax, whose values then appear unchanged.
C10_SymmetricColorScale ==
    (call.func = "pcolor" /\ ret.done) =>
        LET a == call.args
            primary == ret.AxStructs[1].data[1]
            zs == Elements(a.Z)
            expected == SetMax({Abs(SetMax(zs)), Abs(SetMin(zs))})
            given == a.plot_method_kwargs
        IN /\ ~ret.raised
           /\ primary.index = 1
           /\ primary.axfunc = a.plot_method
           /\ primary.fkwargs.vmax =
                IF "vmax" \in DOMAIN given THEN given.vmax ELSE expected
           /\ primary.fkwargs.vmin =
                IF "vmin" \in DOMAIN given THEN given.vmin ELSE -expected

\* Z spans [-3, 5], contourf, no override: vmax = 5, vmin = -5
C10_Witness ==
    /\ call.func = "pcolor" /\ ret.done
    /\ Elements(call.args.Z) = {-3, 5}
    /\ call.args.plot_method = "contourf"
    /\ DOMAIN call.args.plot_method_kwargs = {}
    /\ ret.AxStructs[1].data[1].fkwargs.vmax = 5
    /\ ret.AxStructs[1].data[1].fkwargs.vmin = -5

\* ---- _template_z111p_axstructs -----------------------------------------
\* The structures of zip_results are objects: a pair holds a reference
\* into `heap`, and ax['layout'][0] = pos and data.append(...) write
\* through that reference.
Objects == 1..MaxPairs

Prebuilt ==
    [o \in Objects |->
        AxesStructure(<<Instr(o, "plot", <<"x", "y">>, EmptyDict)>>,
                      <<Position("int", 111), [title |-> "T"]>>,
                      <<"ggplot">>)]

\* for i, _results in enumerate(zip_results, 0): ...
\* st = [heap, AxStructs, log]
RECURSIVE ZipLoop(_, _, _)
ZipLoop(zip_results, k, st) ==
    IF k > Len(zip_results) THEN st
    ELSE LET o == zip_results[k][1]
             p == zip_results[k][2]
         IN ZipLoop(zip_results, k + 1,
              IF IsValidPosition(p)
              THEN [st EXCEPT !.heap[o].layout[1] = p,
                              !.AxStructs = Append(st.AxStructs, o)]
              ELSE [st EXCEPT !.log = Append(st.log,
                        LogRec("error", "invalid position", k - 1))])

_template_z111p_axstructs(a) ==
    LET st == ZipLoop(a.zip_results, 1,
                      [heap |-> a.heap, AxStructs |-> <<>>, log |-> <<>>])
        done(s) == [done |-> TRUE, raised |-> FALSE, heap |-> s.heap,
                    AxStructs |-> s.AxStructs, styles |-> <<>>,
                    log |-> s.log]
    IN IF a.suptitle = "" THEN done(st)
       ELSE IF st.AxStructs = <<>>
       THEN \* AxStructs[0] raises IndexError, caught
            done([st EXCEPT !.log = Append(st.log,
                     LogRec("error", "Failed to set suptitle", 0))])
       ELSE LET first == st.AxStructs[1]
                dat == st.heap[first].data
            IN done([st EXCEPT !.heap[first].data =
                        Append(dat, Instr(Len(dat) + 1, "revise",
                                          <<"addsuptitle">>, EmptyDict))])

ZipPositions ==
    {Position("int", 221), Position("list", 1), Position("SubplotSpec", 1),
     Position("str", 1)}

ZipArgs ==
    [heap : {Prebuilt},
     zip_results : SeqsUpTo(Objects \X ZipPositions, MaxPairs),
     suptitle : {"", "S"}]

InitZip ==
    /\ \E a \in ZipArgs : call = [func |-> "z111p", args |-> a]
    /\ ret = Pending
    /\ IdleInterp

ApplyZip == Apply("z111p", _template_z111p_axstructs(call.args))

NextZip == ApplyZip

SpecZip == InitZip /\ [][NextZip]_vars

\* the pairs whose position is an integer, a list or a grid-spec handle
ZipValid(zr) ==
    {k \in 1..Len(zr) : zr[k][2].type \in {"int", "list", "SubplotSpec"}}

\* the k-th pair with a valid position, counted from 1
RECURSIVE NthValid(_, _)
NthValid(zr, n) ==
    LET V == ZipValid(zr)
    IN IF n = 1 THEN SetMin(V)
       ELSE SetMin({k \in V : k > NthValid(zr, n - 1)})

DistinctObjects(zr) ==
    \A j, k \in 1..Len(zr) : j # k => zr[j][1] # zr[k][1]

\* The output holds one structure per pair with a valid position, in
\* input order, each at its pair's position and with its axstyle as
\* supplied; dataOK(n, o) says what its data must be.
ZipOutput(dataOK(_, _)) ==
    LET zr == call.args.zip_results
        out == ret.AxStructs
    IN /\ ~ret.raised
       /\ Len(out) = Cardinality(ZipValid(zr))
       /\ \A n \in 1..Len(out) :
            LET k == NthValid(zr, n)
                o == zr[k][1]
            IN /\ out[n] = o
               /\ ret.heap[o].layout[1] = zr[k][2]
               /\ ret.heap[o].layout[2] = Prebuilt[o].layout[2]
               /\ ret.heap[o].axstyle = Prebuilt[o].axstyle
               /\ dataOK(n, o)

DataUnchanged(n, o) == ret.heap[o].data = Prebuilt[o].data

DataUnchangedButSuptitle(n, o) ==
    IF n = 1 /\ call.args.suptitle # ""
    THEN /\ Len(ret.heap[o].data) = Len(Prebuilt[o].data) + 1
         /\ SubSeq(ret.heap[o].data, 1, Len(Prebuilt[o].data))
              = Prebuilt[o].data
         /\ ret.heap[o].data[Len(ret.heap[o].data)].axfunc = "revise"
         /\ ret.heap[o].data[Len(ret.heap[o].data)].index
              = Len(Prebuilt[o].data) + 1
    ELSE DataUnchanged(n, o)

\* C9 (as stated): one output per pair with a valid position, in input
\* order, at the supplied position, data and axstyle unchanged.
C9_ZipAsStated ==
    (call.func = "z111p" /\ ret.done) => ZipOutput(DataUnchanged)

\* C9 (amended): for pairs that hold distinct structure objects, one
\* output per pair with a valid position, in input order, at the supplied
\* position, axstyle unchanged, and data unchanged except that a
\* requested suptitle appends one revise instruction to the first output.
C9_ZipDistinctObjects ==
    (call.func = "z111p" /\ ret.done /\ DistinctObjects(call.args.zip_results))
        => ZipOutput(DataUnchangedButSuptitle)

\* three distinct structures, one invalid position, a suptitle: two
\* outputs, the revise instruction on the first
C9_Witness ==
    /\ call.func = "z111p" /\ ret.done
    /\ Len(call.args.zip_results) = 3
    /\ DistinctObjects(call.args.zip_results)
    /\ Cardinality(ZipValid(call.args.zip_results)) = 2
    /\ call.args.suptitle = "S"
    /\ Len(ret.AxStructs) = 2
    /\ Len(ret.heap[ret.AxStructs[1]].data) = 2

\* ---- _template_sharex_twinx_axstructs ----------------------------------
MaxRows == 2        \* rows of YINFO
MaxGroup == 1       \* lines in the left or the right group of a row

\* number of decimal digits of n >= 0, as '%s' % n writes them
RECURSIVE Digits(_)
Digits(n) == IF n < 10 THEN 1 ELSE 1 + Digits(n \div 10)

RECURSIVE Pow10(_)
Pow10(k) == IF k = 0 THEN 1 ELSE 10 * Pow10(k - 1)

\* number = int("%s1%s" % (len(YINFO), row + 1))
RowNumber(n, row) ==
    n * Pow10(Digits(row + 1) + 1) + Pow10(Digits(row + 1)) + (row + 1)

\* if row == len(YINFO) - 1
IsLastRowOffByOne(row, n) == row = n
IsLastRow(row, n) == row = n - 1

\* layout = dict(xlim=xlim), then title, xlabel or xticklabels
SharexLayout(a, row) ==
    LET n == Len(a.YINFO)
        k0 == [xlim |-> a.xlim]
        k1 == IF row = 0 /\ a.title # "" THEN DictSet(k0, "title", a.title)
              ELSE k0
    IN IF IsLastRow(row, n)
       THEN (IF a.xlabel # "" THEN DictSet(k1, "xlabel", a.xlabel) ELSE k1)
       ELSE DictSet(k1, "xticklabels", <<>>)

\* for i, ln in enumerate(lines, start):
\*     data.append([i, 'plot', (X, ln[0]), dict(label=ln[1])])
PlotLoop(X, lines, start) ==
    [k \in 1..Len(lines) |->
        Instr(start + k - 1, "plot", <<X, lines[k][1]>>,
              [label |-> lines[k][2]])]

\* nextcolor of the twin instruction: len(YINFO[row]['left'])
TwinNextColorRight(info) == Len(info.right)
TwinNextColor(info) == Len(info.left)

\* The left group of a row; st = [data, i].
SharexLeft(a, info, st) ==
    IF Len(info.left) > 0
    THEN LET plots == PlotLoop(a.X, info.left, 1)
             legendkw == IF "llegend" \in DOMAIN info THEN info.llegend
                         ELSE [loc |-> "upper left"]
             i1 == Len(info.left) + 1
             d1 == (st.data \o plots)
                     \o <<Instr(i1, "legend", <<>>, legendkw)>>
         IN IF "lylabel" \in DOMAIN info
            THEN [i |-> i1 + 1,
                  data |-> Append(d1,
                             Instr(i1 + 1, "set_ylabel", <<info.lylabel>>,
                                   [rotation |-> a.ylabel_rotation]))]
            ELSE [i |-> i1, data |-> d1]
    ELSE st

\* The right group of a row; st = [data, i].
SharexRight(a, info, st) ==
    IF Len(info.right) > 0
    THEN LET itwin == st.i + 1
             twin == Instr(itwin, "twinx", <<>>,
                           [nextcolor |-> TwinNextColor(info)])
             plots == PlotLoop(a.X, info.right, itwin + 1)
             legendkw == IF "rlegend" \in DOMAIN info THEN info.rlegend
                         ELSE [loc |-> "upper right"]
             i1 == itwin + Len(info.right) + 1
             d1 == (Append(st.data, twin) \o plots)
                     \o <<Instr(i1, "legend", <<>>, legendkw)>>
             st2 == IF "rylabel" \in DOMAIN info
                    THEN [i |-> i1 + 1,
                          data |-> Append(d1,
                             Instr(i1 + 1, "set_ylabel", <<info.rylabel>>,
                                   [rotation |-> a.ylabel_rotation]))]
                    ELSE [i |-> i1, data |-> d1]
         IN [i |-> st2.i,
             data |-> Append(st2.data,
                        Instr(st2.i + 1, "set_xlim", a.xlim, EmptyDict))]
    ELSE st

\* for row in range(len(YINFO)): ... AxStructs.append(...)
RECURSIVE SharexLoop(_, _, _)
SharexLoop(a, row, AxStructs) ==
    IF row >= Len(a.YINFO) THEN AxStructs
    ELSE LET info == a.YINFO[row + 1]
             st == SharexRight(a, info,
                     SharexLeft(a, info, [data |-> <<>>, i |-> 0]))
         IN SharexLoop(a, row + 1,
              Append(AxStructs,
                [data |-> st.data,
                 layout |-> <<Position("int",
                                       RowNumber(Len(a.YINFO), row)),
                              SharexLayout(a, row)>>]))

_template_sharex_twinx_axstructs(a) ==
    [done |-> TRUE, raised |-> FALSE,
     AxStructs |-> SharexLoop(a, 0, <<>>),
     styles |-> <<[hspace |-> a.hspace]>>]

\* A group of n lines (y, label).
Group(n) == [k \in 1..n |-> <<"y", "label">>]

WithKey(S, k, v) == S \cup {DictSet(d, k, v) : d \in S}

\* Rows of YINFO: left and right groups, without any optional key, with
\* lylabel and/or rylabel, or with both legend placements overridden.
GroupRowInfos ==
    {[left |-> Group(l), right |-> Group(r)] :
        l \in 0..MaxGroup, r \in 0..MaxGroup}

RowInfos ==
    WithKey(WithKey(GroupRowInfos, "lylabel", "L"), "rylabel", "R")

LegendRowInfos ==
    {DictSet(DictSet(d, "llegend", [loc |-> "best"]),
             "rlegend", [loc |-> "best"]) : d \in GroupRowInfos}

NonEmptySeqsUpTo(S, n) == UNION {[1..m -> S] : m \in 1..n}

SharexArgs ==
    [X : {"X"},
     YINFO : NonEmptySeqsUpTo(RowInfos \cup LegendRowInfos, MaxRows),
     hspace : {0},
     title : {"", "T"},
     xlabel : {"", "X"},
     xlim : {<<0, 1>>},
     ylabel_rotation : {0}]

InitSharex ==
    /\ \E a \in SharexArgs : call = [func |-> "sharex", args |-> a]
    /\ ret = Pending
    /\ IdleInterp

ApplySharex ==
    Apply("sharex", _template_sharex_twinx_axstructs(call.args))

NextSharex == ApplySharex

SpecSharex == InitSharex /\ [][NextSharex]_vars

\* C11: one structure per row, at the position made of the row count and
\* the row index; every row but the last sets empty x tick labels and has
\* no xlabel; the last row alone carries the xlabel, if one is supplied;
\* the first row alone carries the title, if one is supplied.
C11_SharexLayouts ==
    (call.func = "sharex" /\ ret.done) =>
        LET a == call.args
            n == Len(a.YINFO)
        IN /\ ~ret.raised
           /\ Len(ret.AxStructs) = n
           /\ \A r \in 1..n :
                LET pos0 == ret.AxStructs[r].layout[1]
                    kw == ret.AxStructs[r].layout[2]
                IN /\ pos0.type = "int"
                   /\ pos0.v = 100 * n + 10 + r
                   /\ r < n =>
                        /\ "xticklabels" \in DOMAIN kw
                        /\ kw.xticklabels = <<>>
                        /\ "xlabel" \notin DOMAIN kw
                   /\ "xlabel" \in DOMAIN kw <=> (r = n /\ a.xlabel # "")
                   /\ "xlabel" \in DOMAIN kw => kw.xlabel = a.xlabel
                   /\ "title" \in DOMAIN kw <=> (r = 1 /\ a.title # "")
                   /\ "title" \in DOMAIN kw => kw.title = a.title

\* two rows or more, with a title and an xlabel
C11_Witness ==
    /\ call.func = "sharex" /\ ret.done
    /\ Len(ret.AxStructs) >= 2
    /\ call.args.title = "T" /\ call.args.xlabel = "X"
    /\ "title" \in DOMAIN ret.AxStructs[1].layout[2]
    /\ "xlabel" \in DOMAIN ret.AxStructs[Len(ret.AxStructs)].layout[2]
    /\ "xticklabels" \in DOMAIN ret.AxStructs[1].layout[2]

\* ---- a template's structure handed to _add_axes -------------------------
\* _add_axes(fig, s['data'], s['layout'], axstyle) for one of the
\* structures a template generator returned.
AddTemplateAxes ==
    /\ pc = "done"
    /\ ret.done /\ ~ret.raised
    /\ calls = <<>>
    /\ \E r \in 1..Len(ret.AxStructs) :
        LET s == AxesStructure(ret.AxStructs[r].data,
                               ret.AxStructs[r].layout, "axstyle")
        IN /\ axstructure' = s
           /\ calls' = <<CallRec(1, s)>>
    /\ nstructs' = 1
    /\ i' = 1
    /\ outcome' = <<>>
    /\ pc' = "add_axes"
    /\ UNCHANGED <<caller, fig, result, styles, pos, ax, axesdict,
                   artistdict, axes, artists, log, templ>>

\* The shared-x template, then one of its rows interpreted.
MaxTwinRows == 1    \* rows of YINFO when a row is then interpreted

\* YINFO whose first row has any of the optional labels and whose further
\* rows have none.
TwinYINFO ==
    {<<r>> \o t : r \in RowInfos,
                  t \in SeqsUpTo(GroupRowInfos, MaxTwinRows - 1)}

SharexAxesArgs ==
    [X : {"X"},
     YINFO : TwinYINFO,
     hspace : {0},
     title : {"T"},
     xlabel : {"X"},
     xlim : {<<0, 1>>},
     ylabel_rotation : {0}]

InitSharexAxes ==
    /\ \E a \in SharexAxesArgs : call = [func |-> "sharex", args |-> a]
    /\ ret = Pending
    /\ IdleInterp

NextSharexAxes ==
    \/ ApplySharex
    \/ AddTemplateAxes
    \/ RecheckLayout
    \/ UseLayout
    \/ Twin
    \/ Artist
    \/ EndAxes

SpecSharexAxes == InitSharexAxes /\ [][NextSharexAxes]_vars

Rep(v, n) == [k \in 1..n |-> v]

\* the verbs the claim lists for the left and for the right group
LeftVerbs(info) ==
    IF Len(info.left) > 0
    THEN (Rep("plot", Len(info.left)) \o <<"legend">>)
           \o (IF "lylabel" \in DOMAIN info THEN <<"set_ylabel">> ELSE <<>>)
    ELSE <<>>

RightVerbs(info) ==
    ((<<"twinx">> \o Rep("plot", Len(info.right))) \o <<"legend">>)
      \o (IF "rylabel" \in DOMAIN info THEN <<"set_ylabel">> ELSE <<>>)
      \o <<"set_xlim">>

\* position in the row's data of its twinx instruction
TwinPos(info) == Len(LeftVerbs(info)) + 1

RowOrderAsClaimed(a, info, dat) ==
    Len(info.right) > 0 =>
        /\ [k \in 1..Len(dat) |-> dat[k].axfunc]
             = LeftVerbs(info) \o RightVerbs(info)
        /\ \A k \in 1..Len(info.left) :
             dat[k].fargs = <<a.X, info.left[k][1]>>
        /\ DOMAIN dat[TwinPos(info)].fkwargs = {"nextcolor"}
        /\ dat[TwinPos(info)].fkwargs.nextcolor = Len(info.left)
        /\ \A k \in 1..Len(info.right) :
             dat[TwinPos(info) + k].fargs = <<a.X, info.right[k][1]>>
        /\ dat[Len(dat)].fargs = a.xlim

SharexOrderAsClaimed ==
    (call.func = "sharex" /\ ret.done) =>
        \A r \in 1..Len(call.args.YINFO) :
            RowOrderAsClaimed(call.args, call.args.YINFO[r],
                              ret.AxStructs[r].data)

\* the row whose structure is being interpreted
CurrentRow ==
    CHOOSE r \in 1..Len(ret.AxStructs) :
        ret.AxStructs[r].layout[1] = layout[1]

\* Every artifact of the interpreted row belongs to the primary panel
\* if its instruction comes before the twinx instruction and to the
\* panel onTwin(twin position) if it comes after.
SharexTargets(onTwin(_)) ==
    (call.func = "sharex" /\ pc = "use_data") =>
        LET info == call.args.YINFO[CurrentRow]
        IN Len(info.right) > 0 =>
             \A a \in DOMAIN artists :
                IF a < TwinPos(info)
                THEN artists[a].ax = PrimaryAx
                ELSE artists[a].ax = onTwin(TwinPos(info))

TwinPanel(t) == t
TwinPanelIfCreated(t) ==
    IF t \in DOMAIN outcome /\ outcome[t] # "raised" THEN t ELSE PrimaryAx

\* C12 (as stated): the instructions of a row with a right group come in
\* the claimed order, and when the row is interpreted the left group's
\* artifacts are on the primary panel and the right plots, the right
\* legend and the set_xlim are on the twin panel.
C12_SharexRightOnTwin ==
    SharexOrderAsClaimed /\ SharexTargets(TwinPanel)

\* C12 (amended): the same order; the right group's instructions are on
\* the twin panel when the twinx call returned a panel, and on the
\* primary panel when it raised.
C12_SharexRightOnCreatedTwin ==
    SharexOrderAsClaimed /\ SharexTargets(TwinPanelIfCreated)

\* a row with both groups interpreted without a failure: the left plot on
\* the primary panel, the set_xlim on the twin
C12_Witness ==
    /\ call.func = "sharex" /\ pc = "use_data"
    /\ pos > Len(data)
    /\ LET info == call.args.YINFO[CurrentRow]
       IN /\ Len(info.left) > 0 /\ Len(info.right) > 0
          /\ \A k \in 1..Len(outcome) : outcome[k] = "ok"
          /\ artists[1].ax = PrimaryAx
          /\ data[Len(data)].axfunc = "set_xlim"
          /\ artists[Len(data)].ax = TwinPos(info)
          /\ axes[TwinPos(info)].color = Len(info.left)

\* ---- the pseudocolor template's structure handed to _add_axes ----------
MaxShadow == 2    \* shadow axes requested for the surface variant

PcolorAxesArgs ==
    [X : {<<0, 1>>}, Y : {<<0, 2>>}, Z : {<<-3, 5>>},
     plot_method : {"pcolor", "contourf", "plot_surface"},
     plot_method_args : {<<>>},
     plot_method_kwargs : {EmptyDict},
     title : {"T"}, xlabel : {""}, ylabel : {""},
     colorbar : BOOLEAN,
     grid_alpha : {None, PyInt(1)},
     plot_surface_shadow : SeqsUpTo({"x", "y", "z"}, MaxShadow)]

InitPcolorAxes ==
    /\ \E a \in PcolorAxesArgs : call = [func |-> "pcolor", args |-> a]
    /\ ret = Pending
    /\ IdleInterp

NextPcolorAxes ==
    \/ ApplyPcolor
    \/ AddTemplateAxes
    \/ RecheckLayout
    \/ UseLayout
    \/ Revise
    \/ Artist
    \/ EndAxes

SpecPcolorAxes == InitPcolorAxes /\ [][NextPcolorAxes]_vars

IsColorbar(ins) == ins.axfunc = "revise" /\ ins.fargs = ColorbarCallback

\* a shadow contour: a contourf drawn along zdir
IsShadow(ins) == ins.axfunc = "contourf" /\ "zdir" \in DOMAIN ins.fkwargs

\* the template's list: the primary plot first and alone with key 1, the
\* shadows' keys above 1, a requested colorbar after all of them
PcolorOrderAsClaimed ==
    (call.func = "pcolor" /\ ret.done) =>
        LET a == call.args
            d == ret.AxStructs[1].data
            revs == {k \in 1..Len(d) : d[k].axfunc = "revise"}
        IN /\ d[1].index = 1
           /\ d[1].axfunc = a.plot_method
           /\ d[1].fargs[3] = a.Z
           /\ ~IsShadow(d[1])
           /\ \A k \in 2..Len(d) : d[k].index > 1
           /\ \A k \in 1..Len(d) :
                IsShadow(d[k]) <=>
                    /\ a.plot_method = "plot_surface"
                    /\ k \in 2..(1 + Len(a.plot_surface_shadow))
           /\ IF a.colorbar
              THEN \E c \in 2..Len(d) :
                     /\ revs = {c}
                     /\ IsColorbar(d[c])
                     /\ \A k \in 1..Len(d) : IsShadow(d[k]) => k < c
              ELSE revs = {}

\* the colorbar callback is the next instruction to run and the primary
\* plot returned an artifact
ColorbarAboutToRun ==
    /\ call.func = "pcolor"
    /\ pc = "use_data"
    /\ pos <= Len(data)
    /\ IsColorbar(data[pos])
    /\ outcome[1] = "ok"

\* C13: in the pseudocolor template's output the primary plot is the
\* first instruction and the only one with key 1, the shadow contours have
\* keys above 1 and a requested colorbar is a revise instruction after all
\* of them; when the structure is interpreted and the primary plot
\* succeeded, the colorbar callback finds the primary plot's artifact at
\* key 1 of the artifact registry.
C13_ColorbarFindsPrimary ==
    /\ PcolorOrderAsClaimed
    /\ ColorbarAboutToRun =>
          /\ 1 \in DOMAIN artistdict
          /\ artistdict[1] = 1
          /\ artists[artistdict[1]].func = call.args.plot_method

\* a surface with two shadows and a colorbar: the three plots registered
\* under keys 1, 2, 3 and the callback, fourth, returned
C13_Witness ==
    /\ call.func = "pcolor" /\ pc = "use_data"
    /\ call.args.plot_method = "plot_surface"
    /\ Len(call.args.plot_surface_shadow) = 2
    /\ Len(outcome) >= 4
    /\ IsColorbar(data[4])
    /\ \A k \in 1..4 : outcome[k] = "ok"
    /\ artistdict[1] = 1 /\ artistdict[2] = 2 /\ artistdict[3] = 3
    /\ artists[1].func = "plot_surface"
    /\ artists[2].func = "contourf"

====
